---------------------------- MODULE Spec2Model ----------------------------
(***************************************************************************)
(* A model of Queue<T> (src/src/queue.h): a fixed-capacity queue guarded   *)
(* by one std::mutex and one std::condition_variable per instance.         *)
(*                                                                         *)
(* Two Queue objects are modelled: "orig", built by Queue(int), and        *)
(* "copy", built from it by the copy constructor.  m_data is a pointer:    *)
(* it names a slab of the heap, and the slab holds the slots.  Slots are   *)
(* indexed from 0 as in the code.  The element type is int, as in every    *)
(* instantiation of the repository (src/main.cpp, src/test/test.cpp).      *)
(*                                                                         *)
(* Each thread is idle or inside one call.  A call is cut at the points    *)
(* where the mutex is acquired or released: what a thread does between     *)
(* acquiring the mutex and releasing it is one step.  The copy constructor *)
(* takes no mutex: it is cut at every read of the source.  Neither do      *)
(* count() and the destructor; the destructor is cut before its            *)
(* cv.notify_all().                                                        *)
(***************************************************************************)
EXTENDS Integers, Sequences, FiniteSets

\* ----- bounds of the model (not program constants)
MaxCap == 2      \* Queue(int size) is called with size in 1..MaxCap
NThreads == 2    \* number of threads calling the queue's methods
MaxPush == 3     \* number of push calls made in a behaviour

Threads == 1..NThreads
Queues == {"orig", "copy"}
\* Every push call is given an int of its own, so that each element can be
\* told from the others in what a pop returns; 0 stands for raw memory that
\* was never written.
Values == 1..MaxPush

VARIABLES
    alive,       \* the Queue objects whose constructor has finished
    m_data,      \* per queue: the slab it points to ("null": nullptr)
    m_filled,    \* per queue: current number of elements
    m_capacity,  \* per queue: maximum number of elements
    slab,        \* heap: slab address -> (slot index -> int)
    live,        \* heap: slab address -> indices of the constructed slots
    freed,       \* heap: the slab addresses given back by operator delete
    mtx,         \* per queue: the thread that owns the mutex, 0 when free
    cvWait,      \* per queue: the threads blocked inside cv.wait / wait_for
    pc,          \* per thread: position inside its current call
    op,          \* per thread: the method it is executing
    tq,          \* per thread: the queue the method was called on
    element,     \* per thread: the argument of push
    expired,     \* per thread: wait_for's deadline has passed
    ret,         \* outcome of the pop or popWithTimeout that ended last
    i,           \* the copy constructor's loop variable
    nextVal,     \* the next element value a push call is given
    pushLog,     \* history, per queue: elements in the order push stored them
    popLog,      \* history, per queue: elements in the order pops took them
    evicted,     \* history, per queue: elements overwritten by push on full
    copyQuiet,   \* history: no push or pop changed the source during the copy
    snapshot,    \* history: the source as it was when the copy began
    seen,        \* history: what the source held at each instant of the copy
    absq         \* history, per queue: the bounded sequence of its operations

vars == <<alive, m_data, m_filled, m_capacity, slab, live, freed, mtx,
          cvWait, pc, op, tq, element, expired, ret, i, nextVal, pushLog,
          popLog, evicted, copyQuiet, snapshot, seen, absq>>

qvars == <<alive, m_data, m_filled, m_capacity, slab, live, freed>>
hvars == <<nextVal, pushLog, popLog, evicted, copyQuiet, snapshot, seen,
          absq>>

\* What a pop or popWithTimeout ends with: the T it returns, or the
\* std::system_error (operation_would_block) popWithTimeout throws.
NoRet == [kind |-> "none", by |-> "none", val |-> 0]
Returned(o, v) == [kind |-> "value", by |-> o, val |-> v]
Thrown == [kind |-> "timeout", by |-> "popWithTimeout", val |-> 0]

\* The slots of queue q, and the elements it currently holds, oldest first.
Slots(q) == slab[m_data[q]]
Elems(q) == [k \in 1..m_filled[q] |-> Slots(q)[k - 1]]

\* operator new(size * sizeof(T)): raw memory for size slots.
RawSlab(size) == [k \in 0..(size - 1) |-> 0]


\* m_data = static_cast<T*>(operator new(size * sizeof(T))) with size < 0:
\* the product is computed in size_t, where a negative int is a number above
\* any amount of memory, and operator new throws std::bad_alloc.
NewThrows(size) == size < 0

\* The state after Queue<int> queue(size): the original is constructed unless
\* operator new has thrown; the copy does not exist yet.  The constructor
\* tests nothing about size.
Construct(size) ==
    /\ alive = IF NewThrows(size) THEN {} ELSE {"orig"}
    /\ m_data = [q \in Queues |->
                   IF q = "orig" /\ ~NewThrows(size) THEN "orig" ELSE "null"]
    /\ m_filled = [q \in Queues |-> 0]
    /\ m_capacity = [q \in Queues |->
                       IF q = "orig" /\ ~NewThrows(size) THEN size ELSE 0]
    /\ slab = [a \in Queues |->
                 IF a = "orig" /\ ~NewThrows(size) THEN RawSlab(size)
                                                   ELSE RawSlab(0)]
    /\ live = [a \in Queues |-> {}]
    /\ freed = {}
    /\ mtx = [q \in Queues |-> 0]
    /\ cvWait = [q \in Queues |-> {}]
    /\ pc = [t \in Threads |-> "idle"]
    /\ op = [t \in Threads |-> "none"]
    /\ tq = [t \in Threads |-> "orig"]
    /\ element = [t \in Threads |-> 0]
    /\ expired = [t \in Threads |-> FALSE]
    /\ ret = NoRet
    /\ i = 0
    /\ nextVal = 1
    /\ pushLog = [q \in Queues |-> <<>>]
    /\ popLog = [q \in Queues |-> <<>>]
    /\ evicted = [q \in Queues |-> {}]
    /\ copyQuiet = TRUE
    /\ snapshot = [capacity |-> 0, filled |-> 0, elems |-> <<>>]
    /\ seen = {}
    /\ absq = [q \in Queues |-> <<>>]

\* Queue(int size) called as its documentation asks, with a positive size.
Init == \E size \in 1..MaxCap : Construct(size)

\* Queue(int size) called with any int: negative, zero or positive.
CtorSizes == (0 - 1)..MaxCap
InitAnySize == \E size \in CtorSizes : Construct(size)

\* ----- std::mutex and std::condition_variable

\* History: queue q is modified while the copy constructor reads it.
Disturb(q) ==
    copyQuiet' = IF q = "orig" /\ \E c \in Threads : op[c] = "copy"
                 THEN FALSE ELSE copyQuiet

\* History: what queue q holds after the step, count and elements, joins the
\* instants of the source that the running copy constructor overlaps.
Observe(q) ==
    seen' = IF q = "orig" /\ \E c \in Threads : op[c] = "copy"
            THEN seen \cup {<<m_filled'[q], Elems(q)'>>}
            ELSE seen

\* The bounded sequence the queue stands for: a push appends, after dropping
\* the head when the sequence is as long as the capacity; a pop removes the
\* head.  (An empty sequence has no head to drop or remove.)
AbsPush(s, cap, e) ==
    IF Len(s) = cap /\ s # <<>> THEN Append(Tail(s), e) ELSE Append(s, e)
AbsPop(s) == IF s # <<>> THEN Tail(s) ELSE s

\* std::unique_lock<std::mutex> lck(mtx) in push: blocks until the mutex is
\* free.
Lock(t) ==
    /\ pc[t] = "lock"
    /\ mtx[tq[t]] = 0
    /\ mtx' = [mtx EXCEPT ![tq[t]] = t]
    /\ pc' = [pc EXCEPT ![t] = "cs"]
    /\ UNCHANGED <<qvars, cvWait, op, tq, element, expired, ret, i, hvars>>

\* A bug push could have: it returns without notifying anyone.
NotifyNone(q, t) ==
    /\ pc' = [pc EXCEPT ![t] = "idle"]
    /\ UNCHANGED cvWait

\* cv.notify_one(): one thread blocked in the wait, if there is any, is
\* made runnable; which one is not specified.
NotifyOne(q, t) ==
    IF cvWait[q] = {}
    THEN /\ pc' = [pc EXCEPT ![t] = "idle"]
         /\ UNCHANGED cvWait
    ELSE \E w \in cvWait[q] :
            /\ cvWait' = [cvWait EXCEPT ![q] = @ \ {w}]
            /\ pc' = [pc EXCEPT ![t] = "idle", ![w] = "wake"]

\* A bug the predicate could have: it holds of an empty queue too.
NotEmptyAlways(q) == m_filled[q] >= 0

\* The predicate of both waits: [this]() { return m_filled != 0; }
NotEmpty(q) == m_filled[q] # 0

\* A bug the wait could have: the thread blocks with the mutex still held.
WaitMutexKept(t) == mtx

\* The mutex while thread t is blocked in the wait: released.
WaitMutex(t) == [mtx EXCEPT ![tq[t]] = 0]

\* Inside cv.wait / cv.wait_for with the predicate false: the mutex is
\* released and the thread blocks, in one atomic step.
Wait(t) ==
    /\ pc[t] = "cs"
    /\ op[t] \in {"pop", "popWithTimeout"}
    /\ ~expired[t]
    /\ ~NotEmpty(tq[t])
    /\ mtx' = WaitMutex(t)
    /\ cvWait' = [cvWait EXCEPT ![tq[t]] = @ \cup {t}]
    /\ pc' = [pc EXCEPT ![t] = "wait"]
    /\ UNCHANGED <<qvars, op, tq, element, expired, ret, i, hvars>>

\* A blocked thread may wake with no notification (spurious wakeup).
SpuriousWake(t) ==
    /\ pc[t] = "wait"
    /\ cvWait' = [cvWait EXCEPT ![tq[t]] = @ \ {t}]
    /\ pc' = [pc EXCEPT ![t] = "wake"]
    /\ UNCHANGED <<qvars, mtx, op, tq, element, expired, ret, i, hvars>>

\* A woken thread takes the mutex again before the predicate is re-read.
Reacquire(t) ==
    /\ pc[t] = "wake"
    /\ mtx[tq[t]] = 0
    /\ mtx' = [mtx EXCEPT ![tq[t]] = t]
    /\ pc' = [pc EXCEPT ![t] = "cs"]
    /\ UNCHANGED <<qvars, cvWait, op, tq, element, expired, ret, i, hvars>>

\* ----- void push(const T& element)

\* The call: the caller has its argument and waits for the mutex.
PushCall(t, q) ==
    /\ pc[t] = "idle"
    /\ q \in alive
    /\ nextVal <= MaxPush
    /\ op' = [op EXCEPT ![t] = "push"]
    /\ tq' = [tq EXCEPT ![t] = q]
    /\ pc' = [pc EXCEPT ![t] = "lock"]
    /\ element' = [element EXCEPT ![t] = nextVal]
    /\ nextVal' = nextVal + 1
    /\ UNCHANGED <<qvars, mtx, cvWait, expired, ret, i, pushLog, popLog,
                   evicted, copyQuiet, snapshot, seen, absq>>

\* A bug push could have: the test lets a full queue grow.
PushHasRoomOffByOne(q) == m_filled[q] <= m_capacity[q]

\* if (m_filled < m_capacity)
PushHasRoom(q) == m_filled[q] < m_capacity[q]

\* for (int i = 1; i < m_filled; i++) *(m_data + i - 1) = *(m_data + i);
\* run from index k on n elements of slots s.
RECURSIVE ShiftDown(_, _, _)
ShiftDown(s, k, n) ==
    IF k < n THEN ShiftDown([s EXCEPT ![k - 1] = s[k]], k + 1, n) ELSE s

\* A bug push could have: the element is put in the first slot.
PushAppendFirst(s, n, e) == [s EXCEPT ![0] = e]

\* new (m_data + m_filled) T(element)
PushAppend(s, n, e) == [s EXCEPT ![n] = e]

\* A bug push could have: the new element takes the place of the oldest, with
\* no shift.
PushOverwriteInPlace(s, n, e) == [s EXCEPT ![0] = e]

\* A bug push could have: the newest element is overwritten, not the oldest.
PushOverwriteNewest(s, n, e) == [s EXCEPT ![n - 1] = e]

\* the else branch: shift, then *(m_data + m_filled - 1) = element
PushOverwrite(s, n, e) == [ShiftDown(s, 1, n) EXCEPT ![n - 1] = e]

\* The body of push, from the mutex taken to the return.
PushBody(t) ==
    LET q == tq[t]
        a == m_data[q]
        n == m_filled[q]
        e == element[t]
    IN  /\ pc[t] = "cs"
        /\ op[t] = "push"
        /\ IF PushHasRoom(q)
           THEN /\ slab' = [slab EXCEPT ![a] = PushAppend(@, n, e)]
                /\ live' = [live EXCEPT ![a] = @ \cup {n}]
                /\ m_filled' = [m_filled EXCEPT ![q] = n + 1]
                /\ UNCHANGED evicted
           ELSE /\ slab' = [slab EXCEPT ![a] = PushOverwrite(@, n, e)]
                /\ evicted' = [evicted EXCEPT ![q] =
                                  IF n > 0 THEN @ \cup {slab[a][0]} ELSE @]
                /\ UNCHANGED <<live, m_filled>>
        /\ pushLog' = [pushLog EXCEPT ![q] = Append(@, e)]
        /\ NotifyOne(q, t)
        /\ mtx' = [mtx EXCEPT ![q] = 0]
        /\ op' = [op EXCEPT ![t] = "none"]
        /\ element' = [element EXCEPT ![t] = 0]
        /\ Disturb(q)
        /\ absq' = [absq EXCEPT ![q] = AbsPush(@, m_capacity[q], e)]
        /\ UNCHANGED <<alive, m_data, m_capacity, freed, tq, expired, ret, i,
                       nextVal, popLog, snapshot>>
        /\ Observe(q)


\* ----- T pop()

\* The call, up to the moment it has the mutex.  A caller that is still
\* waiting for the mutex has done nothing that any thread can see, so the
\* call and the std::unique_lock are one step.
PopCall(t, q) ==
    /\ pc[t] = "idle"
    /\ q \in alive
    /\ mtx[q] = 0
    /\ mtx' = [mtx EXCEPT ![q] = t]
    /\ op' = [op EXCEPT ![t] = "pop"]
    /\ tq' = [tq EXCEPT ![t] = q]
    /\ pc' = [pc EXCEPT ![t] = "cs"]
    /\ UNCHANGED <<qvars, cvWait, element, expired, ret, i, hvars>>

\* T popped = *(m_data);
PopFront(s) == s[0]

\* A bug pop could have: the elements are not moved.
PopShiftNone(s, n) == s

\* the shift of pop: the elements after the first move one slot down
PopShift(s, n) == ShiftDown(s, 1, n)

\* (m_data + m_filled)->~T(): the index of the slot that is destroyed
PopDestroyed(n) == n

\* A bug pop could have: the count is not decremented.
PopCountKept(n) == n

\* m_filled -= 1;
PopCount(n) == n - 1

\* The body of pop once the wait has ended with the predicate true, from the
\* mutex held to the return.
PopBody(t) ==
    LET q == tq[t]
        a == m_data[q]
        n == m_filled[q]
    IN  /\ pc[t] = "cs"
        /\ op[t] = "pop"
        /\ NotEmpty(q)
        /\ ret' = Returned("pop", PopFront(slab[a]))
        /\ slab' = [slab EXCEPT ![a] = PopShift(@, n)]
        /\ live' = [live EXCEPT ![a] = @ \ {PopDestroyed(n)}]
        /\ m_filled' = [m_filled EXCEPT ![q] = PopCount(n)]
        /\ popLog' = [popLog EXCEPT ![q] = Append(@, PopFront(slab[a]))]
        /\ mtx' = [mtx EXCEPT ![q] = 0]
        /\ pc' = [pc EXCEPT ![t] = "idle"]
        /\ op' = [op EXCEPT ![t] = "none"]
        /\ expired' = [expired EXCEPT ![t] = FALSE]
        /\ Disturb(q)
        /\ absq' = [absq EXCEPT ![q] = AbsPop(@)]
        /\ UNCHANGED <<alive, m_data, m_capacity, freed, cvWait, tq, element,
                       i, nextVal, pushLog, evicted, snapshot>>
        /\ Observe(q)

\* ----- T popWithTimeout(int milliseconds_val)

\* The call, up to the moment it has the mutex (as for pop).
PwtCall(t, q) ==
    /\ pc[t] = "idle"
    /\ q \in alive
    /\ mtx[q] = 0
    /\ mtx' = [mtx EXCEPT ![q] = t]
    /\ op' = [op EXCEPT ![t] = "popWithTimeout"]
    /\ tq' = [tq EXCEPT ![t] = q]
    /\ pc' = [pc EXCEPT ![t] = "cs"]
    /\ UNCHANGED <<qvars, cvWait, element, expired, ret, i, hvars>>

\* The deadline of wait_for passes while the thread is blocked: it leaves
\* the wait and, with the mutex taken again, reads the predicate a last time.
\* Time is not measured: the deadline may pass at any moment of the wait.
Timeout(t) ==
    /\ pc[t] = "wait"
    /\ op[t] = "popWithTimeout"
    /\ cvWait' = [cvWait EXCEPT ![tq[t]] = @ \ {t}]
    /\ expired' = [expired EXCEPT ![t] = TRUE]
    /\ pc' = [pc EXCEPT ![t] = "wake"]
    /\ UNCHANGED <<qvars, mtx, op, tq, element, ret, i, hvars>>

\* A bug popWithTimeout could have: a passed deadline counts as success.
PwtNotEmptyOrExpired(t) == NotEmpty(tq[t]) \/ expired[t]

\* bool not_empty = cv.wait_for(...), once wait_for returns: the predicate
\* as read under the mutex.
PwtNotEmpty(t) == NotEmpty(tq[t])

\* A bug popWithTimeout could have: the test of not_empty is inverted.
PwtThrowsInverted(t) == expired[t] /\ PwtNotEmpty(t)

\* if (!not_empty) throw std::system_error{...}: wait_for returns false only
\* when the deadline has passed.
PwtThrows(t) == expired[t] /\ ~PwtNotEmpty(t)

PwtThrow(t) ==
    /\ pc[t] = "cs"
    /\ op[t] = "popWithTimeout"
    /\ PwtThrows(t)
    /\ ret' = Thrown
    /\ mtx' = [mtx EXCEPT ![tq[t]] = 0]
    /\ pc' = [pc EXCEPT ![t] = "idle"]
    /\ op' = [op EXCEPT ![t] = "none"]
    /\ expired' = [expired EXCEPT ![t] = FALSE]
    /\ UNCHANGED <<qvars, cvWait, tq, element, i, hvars>>

\* T popped = *(m_data);
PwtFront(s) == s[0]

\* A bug popWithTimeout could have: the elements are not moved.
PwtShiftNone(s, n) == s

\* the shift of popWithTimeout
PwtShift(s, n) == ShiftDown(s, 1, n)

\* (m_data + m_filled)->~T(): the index of the slot that is destroyed
PwtDestroyed(n) == n

\* m_filled -= 1;
PwtCount(n) == n - 1

\* The body of popWithTimeout once wait_for has returned true.
PwtBody(t) ==
    LET q == tq[t]
        a == m_data[q]
        n == m_filled[q]
    IN  /\ pc[t] = "cs"
        /\ op[t] = "popWithTimeout"
        /\ PwtNotEmpty(t)
        /\ ret' = Returned("popWithTimeout", PwtFront(slab[a]))
        /\ slab' = [slab EXCEPT ![a] = PwtShift(@, n)]
        /\ live' = [live EXCEPT ![a] = @ \ {PwtDestroyed(n)}]
        /\ m_filled' = [m_filled EXCEPT ![q] = PwtCount(n)]
        /\ popLog' = [popLog EXCEPT ![q] = Append(@, PwtFront(slab[a]))]
        /\ mtx' = [mtx EXCEPT ![q] = 0]
        /\ pc' = [pc EXCEPT ![t] = "idle"]
        /\ op' = [op EXCEPT ![t] = "none"]
        /\ expired' = [expired EXCEPT ![t] = FALSE]
        /\ Disturb(q)
        /\ absq' = [absq EXCEPT ![q] = AbsPop(@)]
        /\ UNCHANGED <<alive, m_data, m_capacity, freed, cvWait, tq, element,
                       i, nextVal, pushLog, evicted, snapshot>>
        /\ Observe(q)


\* ----- Queue(const Queue &src), run by thread t with the original as src

\* m_filled(src.m_filled)
CopyFilled(src) == m_filled[src]

\* m_capacity(src.m_capacity)
CopyCapacity(src) == m_capacity[src]

\* A bug the copy could have: every slot is given the source's first element.
CopySlotFirst(src, k) == slab[m_data[src]][0]

\* *(src.m_data + i), read with no lock held
CopySlot(src, k) == slab[m_data[src]][k]

\* The member initialisers and the allocation.
CopyBegin(t) ==
    /\ pc[t] = "idle"
    /\ m_data["copy"] = "null"
    /\ m_filled' = [m_filled EXCEPT !["copy"] = CopyFilled("orig")]
    /\ m_capacity' = [m_capacity EXCEPT !["copy"] = CopyCapacity("orig")]
    /\ m_data' = [m_data EXCEPT !["copy"] = "copy"]
    /\ slab' = [slab EXCEPT !["copy"] = RawSlab(CopyCapacity("orig"))]
    /\ i' = 0
    /\ pc' = [pc EXCEPT ![t] = "copy"]
    /\ op' = [op EXCEPT ![t] = "copy"]
    /\ copyQuiet' = TRUE
    /\ UNCHANGED ret
    /\ snapshot' = [capacity |-> m_capacity["orig"],
                    filled |-> m_filled["orig"],
                    elems |-> Elems("orig")]
    /\ seen' = {<<m_filled["orig"], Elems("orig")>>}
    /\ UNCHANGED <<alive, live, freed, mtx, cvWait, tq, element, expired,
                   nextVal, pushLog, popLog, evicted, absq>>

\* One turn of the loop: new (m_data + i) T(*(src.m_data + i));
CopyElem(t) ==
    /\ pc[t] = "copy"
    /\ i < m_filled["copy"]
    /\ slab' = [slab EXCEPT ![m_data["copy"]][i] = CopySlot("orig", i)]
    /\ live' = [live EXCEPT ![m_data["copy"]] = @ \cup {i}]
    /\ i' = i + 1
    /\ UNCHANGED <<alive, m_data, m_filled, m_capacity, freed, mtx, cvWait,
                   pc, op, tq, element, expired, ret, hvars>>

\* The loop ends and the constructor returns: the copy can be used.  Its
\* history starts with the elements it was given, and the instants of the
\* source that the constructor overlapped are forgotten.
CopyEnd(t) ==
    /\ pc[t] = "copy"
    /\ ~(i < m_filled["copy"])
    /\ alive' = alive \cup {"copy"}
    /\ pc' = [pc EXCEPT ![t] = "idle"]
    /\ op' = [op EXCEPT ![t] = "none"]
    /\ pushLog' = [pushLog EXCEPT !["copy"] = Elems("copy")]
    /\ absq' = [absq EXCEPT !["copy"] = Elems("copy")]
    /\ seen' = {}
    /\ UNCHANGED <<m_data, m_filled, m_capacity, slab, live, freed, mtx,
                   cvWait, tq, element, expired, ret, i, nextVal, popLog,
                   evicted, copyQuiet, snapshot>>

\* ----- the model

\* The calls thread t makes on queue q, and the steps inside them.
Call(t, q) ==
    \/ PushCall(t, q)
    \/ PopCall(t, q)
    \/ PwtCall(t, q)

Step(t) ==
    \/ Lock(t)
    \/ PushBody(t)
    \/ Wait(t)
    \/ SpuriousWake(t)
    \/ Timeout(t)
    \/ Reacquire(t)
    \/ PopBody(t)
    \/ PwtBody(t)
    \/ PwtThrow(t)

\* Any number of threads call push, pop and popWithTimeout on one queue.
Next ==
    \E t \in Threads :
        \/ Call(t, "orig")
        \/ Step(t)

Spec == Init /\ [][Next]_vars


\* Scheduling: a thread that holds the mutex keeps running until it releases
\* it (weak fairness of the steps taken with the mutex held), and the mutex is
\* handed out fairly: a push that waits for a mutex which is free again and
\* again gets it at some time (strong fairness of Lock).  No call has to be
\* made, and no blocked pop has to wake.
Fairness ==
    \A t \in Threads :
        /\ SF_vars(Lock(t))
        /\ WF_vars(PushBody(t))
        /\ WF_vars(Wait(t))
        /\ WF_vars(PopBody(t))
        /\ WF_vars(PwtBody(t))
        /\ WF_vars(PwtThrow(t))

FairSpec == Spec /\ Fairness

\* Producers and consumers that wait without a deadline: any number of
\* threads call push and pop on one queue.
NextPushPop ==
    \E t \in Threads :
        \/ PushCall(t, "orig")
        \/ PopCall(t, "orig")
        \/ Lock(t)
        \/ PushBody(t)
        \/ Wait(t)
        \/ SpuriousWake(t)
        \/ Reacquire(t)
        \/ PopBody(t)

FairPushPop == Init /\ [][NextPushPop]_vars /\ Fairness

\* The same threads, scheduled so that a thread that holds the mutex keeps
\* running until it releases it, and a woken thread gets the mutex at some
\* time when it is free again and again (strong fairness of Reacquire).  A
\* blocked thread has to be notified to wake, and nothing is asked for a push
\* that waits for the mutex.
FairWake ==
    /\ Init /\ [][NextPushPop]_vars
    /\ \A t \in Threads :
          /\ WF_vars(PushBody(t))
          /\ WF_vars(Wait(t))
          /\ WF_vars(PopBody(t))
          /\ SF_vars(Reacquire(t))

\* The thread that builds the copy and owns it, as a test's local object
\* Queue<int> new_queue(queue) is owned by the test's thread.
Owner == CHOOSE t \in Threads : \A u \in Threads : t <= u

\* One producer, as the writer of main.cpp, and consumers that wait with a
\* deadline: any number of threads call popWithTimeout on one queue and one
\* of them calls push too.
NextTimed ==
    \/ PushCall(Owner, "orig")
    \/ \E t \in Threads :
          \/ PwtCall(t, "orig")
          \/ Lock(t)
          \/ PushBody(t)
          \/ Wait(t)
          \/ SpuriousWake(t)
          \/ Timeout(t)
          \/ Reacquire(t)
          \/ PwtBody(t)
          \/ PwtThrow(t)

\* Scheduling, as in FairWake; moreover time passes: wait_for waits until a
\* fixed time point, whatever number of times the thread wakes and blocks
\* again before it, so a thread that is in the wait again and again has its
\* deadline pass there (strong fairness of Timeout).
FairTimed ==
    /\ Init /\ [][NextTimed]_vars
    /\ \A t \in Threads :
          /\ WF_vars(PushBody(t))
          /\ WF_vars(Wait(t))
          /\ WF_vars(PwtBody(t))
          /\ WF_vars(PwtThrow(t))
          /\ SF_vars(Reacquire(t))
          /\ SF_vars(Timeout(t))

\* The threads that work on the original while it is copied and afterwards:
\* the owner of the copy and one thread more.
Users == {t \in Threads : t <= Owner + 1}

\* The owner copies the original once, at any moment, and then calls push and
\* pop on its copy, while the users call push and pop on the original.
NextCopy ==
    \/ CopyBegin(Owner)
    \/ CopyElem(Owner)
    \/ CopyEnd(Owner)
    \/ PushCall(Owner, "copy")
    \/ PopCall(Owner, "copy")
    \/ \E t \in Users :
          \/ PushCall(t, "orig")
          \/ PopCall(t, "orig")
          \/ Lock(t)
          \/ PushBody(t)
          \/ Wait(t)
          \/ SpuriousWake(t)
          \/ Reacquire(t)
          \/ PopBody(t)

SpecCopy == Init /\ [][NextCopy]_vars


\* ----- ~Queue(), run by the thread that owns the object

\* for (int i = 0; i < m_filled; i++) (m_data + i)->~T(): the slots destroyed
DtorDestroyed(n) == 0..(n - 1)

\* The destructor begins: the object's lifetime has ended, so no new call
\* is made on it.  The elements are destroyed and operator delete(m_data)
\* gives the slab back.  No mutex is taken; m_filled and m_data are left as
\* they are.
DtorFree(t, q) ==
    /\ pc[t] = "idle"
    /\ q \in alive
    /\ alive' = alive \ {q}
    /\ live' = [live EXCEPT ![m_data[q]] = @ \ DtorDestroyed(m_filled[q])]
    /\ freed' = freed \cup {m_data[q]}
    /\ pc' = [pc EXCEPT ![t] = "dtor"]
    /\ op' = [op EXCEPT ![t] = "dtor"]
    /\ tq' = [tq EXCEPT ![t] = q]
    /\ UNCHANGED <<m_data, m_filled, m_capacity, slab, mtx, cvWait, element,
                   expired, ret, i, hvars>>

\* cv.notify_all(), the destructor's last statement: every thread blocked in
\* the wait is made runnable.  The members cv and mtx are destroyed after it.
DtorNotify(t) ==
    /\ pc[t] = "dtor"
    /\ pc' = [u \in Threads |->
                IF u = t THEN "idle"
                ELSE IF u \in cvWait[tq[t]] THEN "wake" ELSE pc[u]]
    /\ cvWait' = [cvWait EXCEPT ![tq[t]] = {}]
    /\ op' = [op EXCEPT ![t] = "none"]
    /\ UNCHANGED <<qvars, mtx, tq, element, expired, ret, i, hvars>>

\* A thread inside pop reads the predicate on a destroyed Queue.  The read of
\* m_filled is undefined behaviour: the memory may still hold the count the
\* queue had (then Wait or PopBody is the step taken) or anything else.  Here
\* it holds something else than 0: the thread leaves the wait, reads
\* *(m_data) in the freed slab and returns whatever is there.
PopDangling(t) ==
    /\ pc[t] = "cs"
    /\ op[t] = "pop"
    /\ m_data[tq[t]] \in freed
    /\ \E v \in 0..MaxPush : ret' = Returned("pop", v)
    /\ mtx' = [mtx EXCEPT ![tq[t]] = 0]
    /\ pc' = [pc EXCEPT ![t] = "idle"]
    /\ op' = [op EXCEPT ![t] = "none"]
    /\ UNCHANGED <<qvars, cvWait, tq, element, expired, i, hvars>>

\* Threads call push and pop on the queue until its owner destroys it; the
\* calls that are under way when it is destroyed go on.
NextDestroy ==
    \/ DtorFree(Owner, "orig")
    \/ DtorNotify(Owner)
    \/ \E t \in Threads :
          \/ PushCall(t, "orig")
          \/ PopCall(t, "orig")
          \/ Lock(t)
          \/ PushBody(t)
          \/ Wait(t)
          \/ SpuriousWake(t)
          \/ Reacquire(t)
          \/ PopBody(t)
          \/ PopDangling(t)

SpecDestroy == Init /\ [][NextDestroy]_vars

\* Scheduling, as in Fairness; moreover the destructor runs to its end, and a
\* woken thread gets the mutex at some time when it is free again and again.
\* No fairness is asked of PopDangling: nothing makes freed memory differ
\* from what it held.
FairDestroy ==
    /\ SpecDestroy
    /\ Fairness
    /\ WF_vars(DtorNotify(Owner))
    /\ \A t \in Threads : SF_vars(Reacquire(t))


\* Threads call push, pop and popWithTimeout on a queue that was constructed
\* with any int as its size.
SpecAnySize == InitAnySize /\ [][Next]_vars


\* ----- int count()

\* What count() ends with: the int it returns.
Counted(n) == [kind |-> "count", by |-> "count", val |-> n]

\* return m_filled;  No mutex is taken: the call is this one read, made
\* whatever the other threads are doing.
Count(t, q) ==
    /\ pc[t] = "idle"
    /\ q \in alive
    /\ ret' = Counted(m_filled[q])
    /\ UNCHANGED <<qvars, mtx, cvWait, pc, op, tq, element, expired, i, hvars>>

\* Threads call push, pop and count on one queue.
NextCount ==
    \/ NextPushPop
    \/ \E t \in Threads : Count(t, "orig")

SpecCount == Init /\ [][NextCount]_vars


\* ----- the slot indices a call works on

\* The shift loop run from index k on n elements reads slot j and writes slot
\* j - 1, for every j from k to n - 1.
ShiftTouched(k, n) == UNION {{j - 1, j} : j \in k..(n - 1)}

\* push with count n and capacity cap: m_data + m_filled is constructed, or
\* the loop runs and m_data + m_filled - 1 is written.
PushTouched(n, cap) ==
    IF n < cap THEN {n} ELSE ShiftTouched(1, n) \cup {n - 1}

\* pop with count n: *(m_data) is read, the loop runs, m_data + m_filled is
\* destroyed.
PopTouched(n) == {0} \cup ShiftTouched(1, n) \cup {PopDestroyed(n)}

\* popWithTimeout with count n, when it does not throw: as pop.
PwtTouched(n) == {0} \cup ShiftTouched(1, n) \cup {PwtDestroyed(n)}


\* ----- the claims

\* A step in which thread t's call of method o runs its body and returns.
Returns(t, o) == pc[t] = "cs" /\ op[t] = o /\ pc'[t] = "idle"

\* The last n elements of sequence s.
LastN(s, n) == SubSeq(s, Len(s) - n + 1, Len(s))

\* The values of sequence s.
Range(s) == {s[k] : k \in DOMAIN s}

\* C1: for a queue of capacity >= 1, whatever push, pop and popWithTimeout
\* calls have been made and however they interleave, 0 <= count <= capacity
\* in every state in which the queue's mutex is not held.
C1_CountWithinCapacity ==
    \A q \in alive :
        (m_capacity[q] >= 1 /\ mtx[q] = 0)
            => (0 <= m_filled[q] /\ m_filled[q] <= m_capacity[q])

\* C1's case: the mutex is free and the queue is full after a push has
\* overwritten an element and a pop has taken one.
C1_Witness ==
    /\ mtx["orig"] = 0
    /\ m_filled["orig"] = m_capacity["orig"]
    /\ evicted["orig"] # {}
    /\ popLog["orig"] # <<>>

\* C2: a pop returns the element at index 0, decrements count by one and
\* leaves the other elements in their order, one position nearer index 0;
\* so what the pops have returned is in the order in which it was pushed.
C2_PopTakesOldest ==
    [][\A t \in Threads :
          Returns(t, "pop") =>
              LET q == tq[t]
              IN  /\ ret' = Returned("pop", Elems(q)[1])
                  /\ m_filled'[q] = m_filled[q] - 1
                  /\ Elems(q)' = Tail(Elems(q))
                  /\ popLog'[q] =
                        SelectSeq(pushLog'[q],
                                  LAMBDA v : v \in Range(popLog'[q]))]_vars

\* C2's case: two pops have returned, nothing was overwritten, and an element
\* that moved down is still in the queue.
C2_Witness ==
    /\ ret.by = "pop"
    /\ Len(popLog["orig"]) >= 2
    /\ evicted["orig"] = {}
    /\ m_filled["orig"] >= 1

\* C3: a push of e on a full queue discards the element at index 0, moves
\* every other element one position nearer index 0, writes e into the last
\* slot and leaves count equal to capacity; the queue then holds the
\* capacity most recently pushed elements, e last.
C3_PushOnFullOverwritesOldest ==
    [][\A t \in Threads :
          (Returns(t, "push") /\ m_filled[tq[t]] = m_capacity[tq[t]]) =>
              LET q == tq[t]
              IN  /\ Elems(q)' = Append(Tail(Elems(q)), element[t])
                  /\ m_filled'[q] = m_capacity[q]
                  /\ m_capacity'[q] = m_capacity[q]
                  /\ Elems(q)' = LastN(pushLog'[q], m_capacity[q])]_vars

\* C3's case: a queue of capacity 2 or more has had an element overwritten.
C3_Witness ==
    /\ m_capacity["orig"] >= 2
    /\ evicted["orig"] # {}
    /\ m_filled["orig"] = m_capacity["orig"]

\* C4: a push of e on a queue that is not full puts e at index count, adds
\* exactly one to count and leaves the elements at [0, old count) as they were.
C4_PushAppends ==
    [][\A t \in Threads :
          (Returns(t, "push") /\ m_filled[tq[t]] < m_capacity[tq[t]]) =>
              LET q == tq[t]
                  n == m_filled[q]
              IN  /\ Slots(q)'[n] = element[t]
                  /\ m_filled'[q] = n + 1
                  /\ \A k \in 0..(n - 1) : Slots(q)'[k] = Slots(q)[k]
                  /\ Elems(q)' = Append(Elems(q), element[t])]_vars

\* C4's case: a second element has been appended behind a first.
C4_Witness ==
    /\ m_filled["orig"] = 2
    /\ popLog["orig"] = <<>>
    /\ evicted["orig"] = {}


\* C5: a pop never returns while count = 0: whatever position the call is in
\* (blocked, woken by a notification or spuriously, or just called), the step
\* in which it returns starts with the thread holding the mutex and count > 0.
C5_PopReturnsOnlyWhenNotEmpty ==
    [][\A t \in Threads :
          (op[t] = "pop" /\ pc[t] # "idle" /\ pc'[t] = "idle") =>
              /\ pc[t] = "cs"
              /\ mtx[tq[t]] = t
              /\ m_filled[tq[t]] > 0]_vars

\* C5's case: a thread blocked in pop has been woken, and by now every
\* element that was pushed has been taken by other calls: when it has the
\* mutex again it finds the queue empty.
C5_Witness ==
    \E t \in Threads :
        /\ op[t] = "pop"
        /\ pc[t] = "wake"
        /\ m_filled[tq[t]] = 0
        /\ popLog[tq[t]] # <<>>
        /\ Len(popLog[tq[t]]) = Len(pushLog[tq[t]])

\* C6: every value a pop or popWithTimeout has returned was pushed before, was
\* returned once only, and was not overwritten by a push on a full queue.
C6_ReturnedWerePushedOnceNotEvicted ==
    /\ \A q \in Queues :
          /\ Range(popLog[q]) \subseteq Range(pushLog[q])
          /\ \A j, k \in DOMAIN popLog[q] :
                j # k => popLog[q][j] # popLog[q][k]
          /\ Range(popLog[q]) \cap evicted[q] = {}
    /\ ret.kind = "value" =>
          \E q \in Queues :
              popLog[q] # <<>> /\ ret.val = popLog[q][Len(popLog[q])]

\* C6's case: an element was overwritten, and a pop has since returned an
\* element pushed after it.
C6_Witness ==
    \E v \in evicted["orig"] :
        \E k \in DOMAIN popLog["orig"] : popLog["orig"][k] > v


\* C7: push never blocks and never fails: whatever count is and whatever the
\* other threads do, a push that has been called returns at some time, given
\* the mutex is handed out fairly; and the step in which it returns has no
\* error outcome and leaves count at most capacity.
C7_PushCompletes ==
    /\ \A t \in Threads :
          (op[t] = "push" /\ pc[t] = "lock") ~> (pc[t] = "idle")
    /\ [][\A t \in Threads :
            Returns(t, "push") =>
                /\ ret' = ret
                /\ op'[t] = "none"
                /\ m_filled'[tq[t]] <= m_capacity[tq[t]]]_vars

\* C7's case: a push has been called on a full queue while another thread is
\* inside pop.
C7_Witness ==
    \E t, u \in Threads :
        /\ op[t] = "push"
        /\ pc[t] = "lock"
        /\ m_filled[tq[t]] = m_capacity[tq[t]]
        /\ op[u] = "pop"
        /\ pc[u] # "idle"


\* C8: when the deadline of popWithTimeout has passed and count is still 0 as
\* the call reads it under the mutex, the call ends by throwing, with no
\* value; it leaves count, the slots and capacity as they were and the mutex
\* free.  The passing of the deadline changes nothing of the queue either.
C8_TimeoutThrowsAndChangesNothing ==
    [][\A t \in Threads :
          /\ (/\ op[t] = "popWithTimeout"
              /\ pc[t] = "cs"
              /\ expired[t]
              /\ m_filled[tq[t]] = 0
              /\ pc'[t] # "cs")
                => /\ ret' = Thrown
                   /\ pc'[t] = "idle"
                   /\ mtx'[tq[t]] = 0
                   /\ UNCHANGED <<m_filled, m_capacity, slab, live, m_data>>
          /\ (op[t] = "popWithTimeout" /\ ~expired[t] /\ expired'[t])
                => UNCHANGED <<m_filled, m_capacity, slab, live, m_data>>]_vars

\* C8's case: a popWithTimeout has thrown on a queue that had held elements.
C8_Witness ==
    /\ ret = Thrown
    /\ pushLog["orig"] # <<>>
    /\ m_filled["orig"] = 0
    /\ mtx["orig"] = 0

\* C9: when popWithTimeout finds an element, at once or after waiting, it
\* returns the value pop would return from the same state and leaves the
\* count, slots and mutex pop would leave; it throws only when the deadline
\* has passed and count is 0 as it reads the predicate again.
C9_PopWithTimeoutAsPop ==
    [][\A t \in Threads :
          Returns(t, "popWithTimeout") =>
              LET q == tq[t]
                  a == m_data[q]
                  n == m_filled[q]
              IN  IF n # 0
                  THEN /\ ret' = Returned("popWithTimeout", PopFront(slab[a]))
                       /\ slab'[a] = PopShift(slab[a], n)
                       /\ live'[a] = live[a] \ {PopDestroyed(n)}
                       /\ m_filled'[q] = PopCount(n)
                       /\ Elems(q)' = Tail(Elems(q))
                       /\ mtx'[q] = 0
                  ELSE /\ expired[t]
                       /\ ret' = Thrown]_vars

\* C9's case: popWithTimeout has returned a value and left an element that
\* moved down behind it.
C9_Witness ==
    /\ ret.kind = "value"
    /\ ret.by = "popWithTimeout"
    /\ m_filled["orig"] >= 1


\* What a queue is to its callers: capacity, count and elements.
View(q) == <<m_capacity[q], m_filled[q], Elems(q)>>

\* C10: a copy made while no call modifies the source has, when its
\* constructor ends, the capacity, count and elements [0, count) the source
\* had when the copy began; and from then on the capacity, count and elements
\* of either queue change only in a step of a push or pop called on that very
\* queue: no call on the original changes the copy, and none on the copy
\* changes the original.
C10_CopyIndependent ==
    [][/\ ("copy" \notin alive /\ "copy" \in alive' /\ copyQuiet)
            => /\ View("copy")' =
                    <<snapshot.capacity, snapshot.filled, snapshot.elems>>
               /\ View("orig")' = View("copy")'
       /\ \A q \in alive :
            View(q)' # View(q)
                => \E t \in Threads :
                      tq[t] = q /\ pc[t] = "cs" /\ pc'[t] = "idle"]_vars

\* C10's case: a copy of two elements was made with the source at rest, the
\* original has changed since, and the copy still holds the two elements.
C10_Witness ==
    /\ "copy" \in alive
    /\ copyQuiet
    /\ snapshot.filled = 2
    /\ Elems("copy") = snapshot.elems
    /\ Elems("orig") # snapshot.elems


\* C11: a copy made while other threads push to and pop from the source has,
\* when its constructor ends, the count and the elements that the source had
\* at one single instant between the start and the end of the copy: never the
\* count of one instant with elements of another, nor elements of two
\* different instants.
C11_CopyIsAtomicSnapshot ==
    [][("copy" \notin alive /\ "copy" \in alive')
          => <<m_filled'["copy"], Elems("copy")'>> \in seen]_vars


\* C12: if the queue is destroyed while a thread is blocked in pop on the
\* empty queue (the thread is in the wait when the destructor is about to
\* notify), that thread leaves the wait at some time: its cv.wait returns and
\* the call ends, it does not stay blocked for ever.
C12_DestructionReleasesWaiters ==
    \A t \in Threads :
        (/\ op[t] = "pop"
         /\ pc[t] = "wait"
         /\ m_filled[tq[t]] = 0
         /\ \E d \in Threads : pc[d] = "dtor" /\ tq[d] = tq[t])
          ~> (op[t] # "pop")


\* C13: a construction with capacity 0 or less is rejected when it is made:
\* there is never a call of push, pop or popWithTimeout on a queue whose
\* capacity is 0 or less.
C13_NoCallOnNonPositiveCapacity ==
    \A t \in Threads :
        op[t] \in {"push", "pop", "popWithTimeout"} => m_capacity[tq[t]] >= 1


\* C14: every public operation reads and writes count and the storage only
\* while it holds the queue's mutex; in particular count() never reads
\* m_filled while a push or a pop is inside its critical section, that is,
\* while another thread holds the mutex.
C14_CountReadsUnderMutex ==
    [][(ret' # ret /\ ret'.by = "count")
          => /\ mtx["orig"] = 0
             /\ \A u \in Threads : ~(pc[u] = "cs" /\ tq[u] = "orig")]_vars


\* C15: pop and popWithTimeout destroy the last live slot, the one at index
\* count - 1 before the decrement; so, whenever no call is inside its critical
\* section, the constructed slots are exactly those at [0, count): no slot at
\* count or above is live, and the slot a push constructs is not live yet.
C15_LiveSlotsArePrefix ==
    \A q \in alive :
        mtx[q] = 0 => live[m_data[q]] = 0..(m_filled[q] - 1)


\* C16: every slot index that push, pop or popWithTimeout reads, writes,
\* constructs or destroys lies within [0, capacity), whatever state the call
\* is made in, a pop on a full queue included.
C16_SlotIndicesWithinCapacity ==
    [][\A t \in Threads :
          (pc[t] = "cs" /\ pc'[t] = "idle") =>
              LET n == m_filled[tq[t]]
                  inside == 0..(m_capacity[tq[t]] - 1)
              IN  /\ op[t] = "push" => PushTouched(n, m_capacity[tq[t]])
                                          \subseteq inside
                  /\ op[t] = "pop" => PopTouched(n) \subseteq inside
                  /\ (op[t] = "popWithTimeout" /\ ret' # Thrown)
                        => PwtTouched(n) \subseteq inside]_vars


\* The threads inside the wait of pop on the original: blocked, or woken and
\* not yet holding the mutex again.
Blocked == {t \in Threads : op[t] = "pop" /\ pc[t] \in {"wait", "wake"}}

C18_RefinesBoundedSequence ==
    \A q \in alive : Elems(q) = absq[q]

\* C18's case: pushes and pops of two threads have interleaved, an element
\* was dropped by a push on the full queue and another was popped; a thread
\* that blocked on the empty queue has been woken by a later push, whose
\* element is in the queue.
C18_Witness ==
    /\ evicted["orig"] # {}
    /\ popLog["orig"] # <<>>
    /\ absq["orig"] # <<>>
    /\ \E t \in Threads :
          op[t] \in {"pop", "popWithTimeout"} /\ pc[t] = "wake"


\* C19: every call of popWithTimeout returns control to its caller at some
\* time, with a value or with the timeout failure, even if no push is ever
\* made (again and again the thread is outside popWithTimeout); once the deadline has passed the call does not block in the wait
\* again, and the step it takes with the mutex ends the call: the failure is
\* not retried inside.
C19_PopWithTimeoutReturns ==
    /\ \A t \in Threads : []<>(op[t] # "popWithTimeout")
    /\ [][\A t \in Threads :
            /\ expired[t] => pc'[t] # "wait"
            /\ (expired[t] /\ pc[t] = "cs" /\ pc'[t] # "cs")
                  => (pc'[t] = "idle" /\ op'[t] = "none")]_vars

\* C19's case: a popWithTimeout has ended with the timeout failure though no
\* push was ever called.
C19_Witness ==
    /\ ret = Thrown
    /\ nextVal = 1
    /\ \A t \in Threads : op[t] # "popWithTimeout"


\* C20: once the destructor has freed the storage, no thread that is blocked
\* in pop or popWithTimeout, or running one, reads count or dereferences the
\* storage: a step such a thread takes with the mutex (it reads the predicate
\* m_filled != 0, and *(m_data) if it goes on) is never taken on a queue
\* whose slab was freed; and the waiters are notified before the slab is
\* freed, not after.
C20_NoUseAfterDestruction ==
    [][/\ \A t \in Threads :
            (/\ op[t] \in {"pop", "popWithTimeout"}
             /\ pc[t] = "cs"
             /\ pc'[t] # "cs")
                => m_data[tq[t]] \notin freed
       /\ \A d \in Threads :
            (pc[d] = "dtor" /\ pc'[d] # "dtor" /\ cvWait[tq[d]] # {})
                => m_data[tq[d]] \notin freed]_vars

=============================================================================
